---- MODULE Spec2Model ----
(***************************************************************************)
(* daily_fetch.py: the daily ingestion job.  One run of main() loads the   *)
(* persisted collection, filters the upstream result sequence, enriches    *)
(* every new paper, prepends the new records and rewrites the file.        *)
(*                                                                         *)
(* JSON text is modelled as a token sequence ("[", object, ",", "]" and    *)
(* bytes that are no JSON), so that json.load / json.dump are a parser and *)
(* a printer and a partly written file is a prefix of the printed text.    *)
(* A Python value is tagged with its type (list or dict).  A paper record  *)
(* carries the fields the pipeline computes from the filter and from the   *)
(* enrichment (id, tags, affiliation, summary, abstract_zh) and the        *)
(* consumer-owned fields userTags, likes and comments.  Left out are the   *)
(* fields copied from the upstream entry's text (titles, abstract,         *)
(* authors, date, pdf_url), coverGradient, which random.choice draws from  *)
(* GRADIENTS and no later step reads, and the remaining constant flags.    *)
(*                                                                         *)
(* A run follows a completed run: an uncaught exception ends the process,  *)
(* and the behaviour with it.  The files such a run can leave (unchanged,  *)
(* or no JSON any more) are among the files a behaviour starts from.       *)
(***************************************************************************)
EXTENDS Integers, Sequences, FiniteSets, TLC

VARIABLES
    file,           \* papers_data.json: [exists, text]
    pc,             \* position of the process inside main()
    existing_data,  \* main: existing_data
    existing_ids,   \* main: existing_ids
    utc_now,        \* fetch_arxiv_updates: utc_now
    upstream,       \* what client_arxiv.results(search) yields in this run
    pos,            \* number of entries the for loop has taken from it
    new_papers,     \* fetch_arxiv_updates: new_papers
    emitted,        \* history: the positions of the entries appended
    skipped,        \* history: why entries of this run were not appended
    raw_papers,     \* main: raw_papers
    processed_list, \* main: processed_list
    final_data,     \* main: final_data
    ai_calls,       \* history: calls of ai_process in this run
    last_ai,        \* history: the outcome of the latest enrichment call
    fetch_failed,   \* history: the except branch of main was taken
    abort_at,       \* where an uncaught exception ended the run
    prev_file,      \* history: the file as it was when the run started
    nothing_new,    \* history: the upstream of this run holds nothing new
    quiet_n,        \* history: completed runs in a row with nothing new
    quiet_base,     \* history: the collection before the first of them
    runs            \* number of runs started

vars == <<file, pc, existing_data, existing_ids, utc_now, upstream, pos,
          new_papers, emitted, skipped, raw_papers, processed_list,
          final_data, ai_calls, last_ai, fetch_failed, abort_at, prev_file, nothing_new,
          quiet_n, quiet_base, runs>>

\* ------------------------------------------------------------------ bounds
\* longest upstream result sequence the filter is checked on
MaxUpstream == 3
\* longest upstream result sequence of a run of the whole pipeline
MaxRunUpstream == 2
\* runs of main() in a row
MaxRuns == 2

\* --------------------------------------------------------------- constants
WindowHours == 25

Cat(archive, subject) == <<archive, subject>>

TARGET_CATEGORIES ==
    <<Cat("cs", "AI"), Cat("cs", "CL"), Cat("cs", "LG"), Cat("cs", "CV")>>

InTarget(c) == \E i \in 1..Len(TARGET_CATEGORIES) : TARGET_CATEGORIES[i] = c

\* ------------------------------------------------------------ Python values
List(s) == [py |-> "list", v |-> s]
Dict(d) == [py |-> "dict", v |-> d]
EmptyDict == [k \in {} |-> ""]

\* d.get(key, default)
Get(d, key, default) == IF key \in DOMAIN d THEN d[key] ELSE default

\* str.split(sep)[-1]: the model keeps a string as its sep-separated parts.
SplitLast(parts) == parts[Len(parts)]

\* ---------------------------------------------------------------- JSON text
Tok(t, v) == [t |-> t, v |-> v]
LB == Tok("lb", EmptyDict)
RB == Tok("rb", EmptyDict)
COMMA == Tok("comma", EmptyDict)
JUNK == Tok("junk", EmptyDict)
OBJ(d) == Tok("obj", d)

IsObjText(text) == Len(text) = 1 /\ text[1].t = "obj"

IsArrText(text) ==
    /\ Len(text) >= 2
    /\ text[1].t = "lb"
    /\ text[Len(text)].t = "rb"
    /\ \/ Len(text) = 2
       \/ /\ Len(text) % 2 = 1
          /\ \A i \in 2..(Len(text) - 1) :
                IF i % 2 = 0 THEN text[i].t = "obj" ELSE text[i].t = "comma"

\* json.load / json.loads: ok = FALSE stands for the exception it raises.
JsonLoads(text) ==
    IF IsObjText(text) THEN [ok |-> TRUE, val |-> Dict(text[1].v)]
    ELSE IF IsArrText(text)
         THEN [ok |-> TRUE,
               val |-> List([k \in 1..((Len(text) - 1) \div 2) |-> text[2 * k].v])]
         ELSE [ok |-> FALSE, val |-> List(<< >>)]

\* json.dump of a list of dicts, or of a dict.
JsonDumps(val) ==
    IF val.py = "dict" THEN <<OBJ(val.v)>>
    ELSE LET n == Len(val.v)
             last == IF n = 0 THEN 2 ELSE 2 * n + 1
         IN  [i \in 1..last |->
                 IF i = 1 THEN LB
                 ELSE IF i = last THEN RB
                 ELSE IF i % 2 = 0 THEN OBJ(val.v[i \div 2])
                 ELSE COMMA]

\* --------------------------------------------------------------- the loader
\* a loader that gives up on every file
get_existing_papers_empty(f) == List(<< >>)

get_existing_papers(f) ==
    IF f.exists
    THEN IF JsonLoads(f.text).ok THEN JsonLoads(f.text).val ELSE List(<< >>)
    ELSE List(<< >>)

\* {p['id'] for p in existing_data}: iterating a dict yields its keys, which
\* are strings, and p['id'] of a string raises; so does p['id'] of a dict
\* without that key.
IdsRaise(val) ==
    IF val.py = "dict" THEN DOMAIN val.v # {}
    ELSE \E i \in 1..Len(val.v) : "id" \notin DOMAIN val.v[i]

IdsOf(val) ==
    IF val.py = "dict" THEN {}
    ELSE {val.v[i].id : i \in 1..Len(val.v)}

\* ---------------------------------------------------------------- the filter
PaperId(r) == SplitLast(r.entry_id)

time_threshold(now) == now - WindowHours

\* the cutoff test with the boundary on the wrong side
TooOldInclusive(r, now) == r.updated <= time_threshold(now)

TooOld(r, now) == r.updated < time_threshold(now)

Known(r, ids) == PaperId(r) \in ids

\* the category list taken as it is, without the check against the targets
catsUnchecked(r) == r.categories

cats(r) == SelectSeq(r.categories, InTarget)

\* ------------------------------------------------------------ the enrichment
Fallback == [innovation |-> "AI summary unavailable",
             abstract_zh |-> "translation unavailable"]

\* resp: what client.chat.completions.create does: it raises, or it returns
\* a message whose content is a text.
ai_process(resp) ==
    IF resp.raised THEN Dict(Fallback)
    ELSE IF JsonLoads(resp.content).ok THEN JsonLoads(resp.content).val
         ELSE Dict(Fallback)

\* ai_res.get(...) raises when ai_res is not a dict.
BuildRaises(ai_res) == ai_res.py # "dict"

Tag(c) == SplitLast(c)

RECURSIVE MapTags(_)
MapTags(cs) ==
    IF cs = << >> THEN << >> ELSE <<Tag(Head(cs))>> \o MapTags(Tail(cs))

paper_obj(r, ai_res) ==
    [id |-> SplitLast(r.entry_id),
     tags |-> MapTags(SelectSeq(r.categories, InTarget)),
     userTags |-> << >>,
     summary |-> [innovation |-> Get(ai_res.v, "innovation", "no summary")],
     abstract_zh |-> Get(ai_res.v, "abstract_zh", "no translation"),
     affiliation |-> r.categories[1],
     likes |-> 0,
     comments |-> << >>]

\* ------------------------------------------------------------------- merge
MergeRaises(new, old) == old.py # "list"

\* the merge with the loaded records first
MergeOldFirst(new, old) == List(old.v \o new)

Merge(new, old) == List(new \o old.v)

\* ------------------------------------------------------------------ inputs
Url(id) == <<"http:", "", "arxiv.org", "abs", id>>

NowSet == {100}

MathOnly == <<Cat("math", "CO")>>
MathAndCL == <<Cat("math", "CO"), Cat("cs", "CL")>>
AIMathCV == <<Cat("cs", "AI"), Cat("math", "CO"), Cat("cs", "CV")>>

\* the entries the filter is checked on: every combination of a paper id, an
\* updated time (one hour before the threshold, exactly at it, one hour
\* after it) and a category list
Entries ==
    [entry_id : {Url("p1"), Url("p2")},
     updated : 74..76,
     categories : {MathOnly, MathAndCL}]

\* the entries a run of the whole pipeline meets: two fresh papers in target
\* categories (one exactly at the threshold), a fresh paper outside the
\* target categories, and a paper older than the cutoff
RunEntries ==
    {[entry_id |-> Url("p1"), updated |-> 75, categories |-> MathAndCL],
     [entry_id |-> Url("p2"), updated |-> 76, categories |-> AIMathCV],
     [entry_id |-> Url("p2"), updated |-> 76, categories |-> MathOnly],
     [entry_id |-> Url("p1"), updated |-> 74, categories |-> MathAndCL]}

RECURSIVE SeqsUpTo(_, _)
SeqsUpTo(S, n) ==
    IF n = 0 THEN {<< >>}
    ELSE LET shorter == SeqsUpTo(S, n - 1)
         IN  shorter \cup {Append(s, e) : s \in {t \in shorter : Len(t) = n - 1}, e \in S}

UpstreamSeqs == SeqsUpTo(Entries, MaxUpstream)

RunSeqs == SeqsUpTo(RunEntries, MaxRunUpstream)

GoodAnswer == [innovation |-> "a new method", abstract_zh |-> "zh abstract"]

\* the call raises; or it returns the requested object, an object without the
\* two fields, a JSON text that is no object, or a text that is no JSON.
AiResponses ==
    {[raised |-> TRUE, content |-> << >>]}
    \cup {[raised |-> FALSE, content |-> c] :
            c \in {<<OBJ(GoodAnswer)>>, <<OBJ(EmptyDict)>>, <<LB, RB>>, <<JUNK>>}}

\* records a former run wrote; the consumer has since changed one of them
OldRec(id, likes) ==
    [id |-> id, tags |-> <<"CL">>, userTags |-> << >>,
     summary |-> [innovation |-> "an older method"],
     abstract_zh |-> "older zh abstract",
     affiliation |-> Cat("cs", "CL"), likes |-> likes, comments |-> << >>]

Absent == [exists |-> FALSE, text |-> << >>]
Present(text) == [exists |-> TRUE, text |-> text]

InitFiles ==
    {Absent,
     Present(JsonDumps(List(<<OldRec("p3", 1), OldRec("p1", 0)>>))),
     Present(JsonDumps(List(<<OldRec("p4", 0), OldRec("p3", 1)>>))),
     Present(<<JUNK>>),
     Present(<<OBJ(EmptyDict)>>),
     Present(<<OBJ(OldRec("p1", 0))>>),
     Present(<<LB, OBJ([likes |-> 1]), RB>>)}

\* -------------------------------------------------------------------- Init
InitWith(files) ==
    /\ file \in files
    /\ pc = "idle"
    /\ existing_data = List(<< >>)
    /\ existing_ids = {}
    /\ utc_now = 0
    /\ upstream = << >>
    /\ pos = 0
    /\ new_papers = << >>
    /\ emitted = << >>
    /\ skipped = {}
    /\ raw_papers = << >>
    /\ processed_list = << >>
    /\ final_data = List(<< >>)
    /\ ai_calls = 0
    /\ last_ai = "none"
    /\ fetch_failed = FALSE
    /\ abort_at = "none"
    /\ prev_file = file
    /\ nothing_new = FALSE
    /\ quiet_n = 0
    /\ quiet_base = << >>
    /\ runs = 0

Init == InitWith(InitFiles)

\* the records a file holds: the items of its JSON array, none when the file
\* is absent or holds no JSON array
Records(f) ==
    IF f.exists /\ JsonLoads(f.text).ok /\ JsonLoads(f.text).val.py = "list"
    THEN JsonLoads(f.text).val.v
    ELSE << >>

\* an uncaught exception ends the process
Abort(where) ==
    /\ pc' = "aborted"
    /\ abort_at' = where
    /\ quiet_n' = 0
    /\ quiet_base' = << >>

\* main, lines 114-115
Load ==
    /\ pc \in {"idle", "done"}
    /\ runs < MaxRuns
    /\ runs' = runs + 1
    /\ prev_file' = file
    /\ existing_data' = get_existing_papers(file)
    /\ utc_now' = 0
    /\ upstream' = << >>
    /\ pos' = 0
    /\ new_papers' = << >>
    /\ emitted' = << >>
    /\ skipped' = {}
    /\ raw_papers' = << >>
    /\ processed_list' = << >>
    /\ final_data' = List(<< >>)
    /\ ai_calls' = 0
    /\ last_ai' = "none"
    /\ fetch_failed' = FALSE
    /\ nothing_new' = FALSE
    /\ IF IdsRaise(existing_data')
       THEN /\ Abort("load")
            /\ existing_ids' = {}
       ELSE /\ pc' = "loaded"
            /\ abort_at' = "none"
            /\ existing_ids' = IdsOf(existing_data')
            /\ UNCHANGED <<quiet_n, quiet_base>>
    /\ UNCHANGED file

\* an upstream entry that is no new paper: known, outside the target
\* categories, or older than the cutoff
NotNew(r, ids, now) == Known(r, ids) \/ cats(r) = << >> \/ TooOld(r, now)

\* fetch_arxiv_updates, lines 42-58
FetchStart(seqs) ==
    /\ pc = "loaded"
    /\ \E now \in NowSet, up \in seqs :
          /\ utc_now' = now
          /\ upstream' = up
          /\ nothing_new' = \A i \in 1..Len(up) : NotNew(up[i], existing_ids, now)
    /\ pc' = "fetch"
    /\ pos' = 0
    /\ new_papers' = << >>
    /\ emitted' = << >>
    /\ skipped' = {}
    /\ UNCHANGED <<file, existing_data, existing_ids, raw_papers, processed_list,
                   final_data, ai_calls, last_ai, fetch_failed, abort_at,
                   prev_file, quiet_n, quiet_base, runs>>

\* the loop body that stops at a known id instead of skipping it
LoopBodyStopsAtKnown(r, ids, now) ==
    IF TooOld(r, now) THEN "break"
    ELSE IF Known(r, ids) THEN "break"
    ELSE IF cats(r) = << >> THEN "continue_category"
    ELSE "append"

\* the body of the for loop, lines 61-76, for one entry: which branch it takes
LoopBody(r, ids, now) ==
    IF TooOld(r, now) THEN "break"
    ELSE IF Known(r, ids) THEN "continue_known"
    ELSE IF cats(r) = << >> THEN "continue_category"
    ELSE "append"

\* fetch_arxiv_updates, lines 60-76: one iteration
FetchStep ==
    /\ pc = "fetch"
    /\ pos < Len(upstream)
    /\ pos' = pos + 1
    /\ LET r == upstream[pos + 1]
           what == LoopBody(r, existing_ids, utc_now)
       IN  /\ pc' = IF what = "break" THEN "fetched" ELSE "fetch"
           /\ new_papers' = IF what = "append" THEN Append(new_papers, r) ELSE new_papers
           /\ emitted' = IF what = "append" THEN Append(emitted, pos + 1) ELSE emitted
           /\ skipped' = IF what = "append" THEN skipped ELSE skipped \cup {what}
    /\ UNCHANGED <<file, existing_data, existing_ids, utc_now, upstream, raw_papers,
                   processed_list, final_data, ai_calls, last_ai, fetch_failed,
                   abort_at, prev_file, nothing_new, quiet_n, quiet_base, runs>>

\* fetch_arxiv_updates, line 60: the result sequence is exhausted
FetchExhausted ==
    /\ pc = "fetch"
    /\ pos = Len(upstream)
    /\ pc' = "fetched"
    /\ UNCHANGED <<file, existing_data, existing_ids, utc_now, upstream, pos,
                   new_papers, emitted, skipped, raw_papers, processed_list, final_data,
                   ai_calls, last_ai, fetch_failed, abort_at, prev_file,
                   nothing_new, quiet_n, quiet_base, runs>>

\* fetch_arxiv_updates, lines 78-79, and main, line 119
FetchReturn ==
    /\ pc = "fetched"
    /\ raw_papers' = new_papers
    /\ pc' = "process"
    /\ upstream' = << >>
    /\ pos' = 0
    /\ new_papers' = << >>
    /\ emitted' = << >>
    /\ UNCHANGED <<file, existing_data, existing_ids, utc_now, skipped, processed_list,
                   final_data, ai_calls, last_ai, fetch_failed, abort_at,
                   prev_file, nothing_new, quiet_n, quiet_base, runs>>

\* what main keeps of the fetch when it raised, line 122
OnFetchError(partial) == << >>

\* main, lines 120-122: the result generator raises, at any point of the loop
FetchRaise ==
    /\ pc = "fetch"
    /\ raw_papers' = OnFetchError(new_papers)
    /\ fetch_failed' = TRUE
    /\ pc' = "process"
    /\ upstream' = << >>
    /\ pos' = 0
    /\ new_papers' = << >>
    /\ emitted' = << >>
    /\ UNCHANGED <<file, existing_data, existing_ids, utc_now, skipped, processed_list,
                   final_data, ai_calls, last_ai, abort_at, prev_file,
                   nothing_new, quiet_n, quiet_base, runs>>

\* how an enrichment call ended
AiKind(resp) ==
    IF resp.raised THEN "raised"
    ELSE IF ~JsonLoads(resp.content).ok THEN "not_json"
    ELSE IF JsonLoads(resp.content).val.py # "dict" THEN "not_object"
    ELSE IF {"innovation", "abstract_zh"} \subseteq DOMAIN JsonLoads(resp.content).val.v
         THEN "answer"
    ELSE "fields_missing"

\* main, lines 128-152: one iteration
Process ==
    /\ pc = "process"
    /\ Len(processed_list) < Len(raw_papers)
    /\ \E resp \in AiResponses :
          LET r == raw_papers[Len(processed_list) + 1]
              ai_res == ai_process(resp)
          IN  /\ last_ai' = AiKind(resp)
              /\ IF BuildRaises(ai_res)
                 THEN /\ Abort("process")
                      /\ UNCHANGED processed_list
                 ELSE /\ processed_list' = Append(processed_list, paper_obj(r, ai_res))
                      /\ UNCHANGED <<pc, abort_at, quiet_n, quiet_base>>
    /\ ai_calls' = ai_calls + 1
    /\ UNCHANGED <<file, existing_data, existing_ids, utc_now, upstream, pos,
                   new_papers, emitted, skipped, raw_papers, final_data, fetch_failed,
                   prev_file, nothing_new, runs>>

\* main, line 159
MergeStep ==
    /\ pc = "process"
    /\ Len(processed_list) = Len(raw_papers)
    /\ IF MergeRaises(processed_list, existing_data)
       THEN /\ Abort("merge")
            /\ UNCHANGED final_data
       ELSE /\ final_data' = Merge(processed_list, existing_data)
            /\ pc' = "merged"
            /\ UNCHANGED <<abort_at, quiet_n, quiet_base>>
    /\ UNCHANGED <<file, existing_data, existing_ids, utc_now, upstream, pos,
                   new_papers, emitted, skipped, raw_papers, processed_list, ai_calls,
                   last_ai, fetch_failed, prev_file, nothing_new, runs>>

\* main, line 162: open(JSON_FILE, 'w') creates the file or truncates it
OpenFile ==
    /\ pc = "merged"
    /\ file' = Present(<< >>)
    /\ pc' = "opened"
    /\ UNCHANGED <<existing_data, existing_ids, utc_now, upstream, pos, new_papers,
                   emitted, skipped, raw_papers, processed_list, final_data, ai_calls,
                   last_ai, fetch_failed, abort_at, prev_file, nothing_new,
                   quiet_n, quiet_base, runs>>

\* main, line 162: open raises (the file cannot be written)
OpenRaise ==
    /\ pc = "merged"
    /\ Abort("open")
    /\ UNCHANGED <<file, existing_data, existing_ids, utc_now, upstream, pos,
                   new_papers, emitted, skipped, raw_papers, processed_list, final_data,
                   ai_calls, last_ai, fetch_failed, prev_file, nothing_new, runs>>

\* main, lines 163-167: json.dump writes the whole text
Dump ==
    /\ pc = "opened"
    /\ file' = Present(JsonDumps(final_data))
    /\ pc' = "done"
    /\ quiet_n' = IF nothing_new THEN quiet_n + 1 ELSE 0
    /\ quiet_base' = IF ~nothing_new THEN << >>
                     ELSE IF quiet_n = 0 THEN Records(prev_file)
                     ELSE quiet_base
    /\ UNCHANGED <<existing_data, existing_ids, utc_now, upstream, pos, new_papers,
                   emitted, skipped, raw_papers, processed_list, final_data, ai_calls,
                   last_ai, fetch_failed, abort_at, prev_file, nothing_new, runs>>

\* main, line 163: a write raises after json.dump has written part of the text
DumpRaise ==
    /\ pc = "opened"
    /\ \E n \in 0..(Len(JsonDumps(final_data)) - 1) :
          file' = Present(SubSeq(JsonDumps(final_data), 1, n))
    /\ Abort("dump")
    /\ UNCHANGED <<existing_data, existing_ids, utc_now, upstream, pos, new_papers,
                   emitted, skipped, raw_papers, processed_list, final_data, ai_calls,
                   last_ai, fetch_failed, prev_file, nothing_new, runs>>

Next ==
    \/ Load
    \/ FetchStart(RunSeqs)
    \/ FetchStep
    \/ FetchExhausted
    \/ FetchReturn
    \/ FetchRaise
    \/ Process
    \/ MergeStep
    \/ OpenFile
    \/ OpenRaise
    \/ Dump
    \/ DumpRaise

Spec == Init /\ [][Next]_vars

\* ------------------------------------------------- the filter on its own
\* collections a run may load: nothing known, one id known, two ids known
FilterFiles ==
    {Absent,
     Present(JsonDumps(List(<<OldRec("p1", 0)>>))),
     Present(JsonDumps(List(<<OldRec("p3", 1), OldRec("p1", 0)>>))),
     Present(JsonDumps(List(<<OldRec("p2", 0), OldRec("p1", 1)>>)))}

InitFilter == InitWith(FilterFiles)

NextFilter ==
    \/ Load
    \/ FetchStart(UpstreamSeqs)
    \/ FetchStep
    \/ FetchExhausted
    \/ FetchReturn
    \/ FetchRaise

SpecFilter == InitFilter /\ [][NextFilter]_vars

\* ================================================================= properties
\* The notions the properties are stated in, written out from the statements.
TargetSet == {<<"cs", "AI">>, <<"cs", "CL">>, <<"cs", "LG">>, <<"cs", "CV">>}

HasTargetCat(e) == \E j \in 1..Len(e.categories) : e.categories[j] \in TargetSet

IdOfEntry(e) == e.entry_id[Len(e.entry_id)]

\* the ids of the loaded collection
LoadedIds == {existing_data.v[i].id : i \in 1..Len(existing_data.v)}

\* now minus 25 hours
Cutoff == utc_now - 25

OldAt(i) == upstream[i].updated < Cutoff

\* the position of the first entry older than the cutoff, Len + 1 if none is
CutPos ==
    IF \E i \in 1..Len(upstream) : OldAt(i)
    THEN CHOOSE i \in 1..Len(upstream) : OldAt(i) /\ \A j \in 1..(i - 1) : ~OldAt(j)
    ELSE Len(upstream) + 1

Fresh(e) == IdOfEntry(e) \notin LoadedIds /\ HasTargetCat(e)

FallbackPair(rec) ==
    /\ rec.summary.innovation = "AI summary unavailable"
    /\ rec.abstract_zh = "translation unavailable"

\* the file a run found cannot be used as a collection: it is absent, no
\* JSON, no JSON array, or an array with an item that carries no id
Unusable(f) ==
    \/ ~f.exists
    \/ ~JsonLoads(f.text).ok
    \/ JsonLoads(f.text).val.py # "list"
    \/ \E i \in 1..Len(Records(f)) : "id" \notin DOMAIN Records(f)[i]

\* C1: between runs, no two records of the persisted collection have the
\* same id.
C1_UniqueIds ==
    pc \in {"idle", "done"} =>
        \A i, j \in 1..Len(Records(file)) :
            (i # j /\ "id" \in DOMAIN Records(file)[i] /\ "id" \in DOMAIN Records(file)[j])
                => Records(file)[i].id # Records(file)[j].id

\* C2: when a run has written, the file holds the new records, in the order
\* the filter emitted their entries, followed by the loaded records unchanged
\* and in their loaded order: n + k records.
C2_MergeOrder ==
    pc = "done" =>
        LET E == Records(prev_file)
            N == processed_list
            W == Records(file)
        IN  /\ file.exists
            /\ JsonLoads(file.text).ok
            /\ existing_data = List(E)
            /\ Len(W) = Len(N) + Len(E)
            /\ \A k \in 1..Len(N) : W[k] = N[k]
            /\ \A k \in 1..Len(E) : W[Len(N) + k] = E[k]
            /\ Len(N) = Len(raw_papers)
            /\ \A k \in 1..Len(N) : N[k].id = IdOfEntry(raw_papers[k])

C2_Witness ==
    /\ pc = "done"
    /\ Len(processed_list) = 2
    /\ processed_list[1].id # processed_list[2].id
    /\ Len(Records(prev_file)) = 2
    /\ Records(prev_file)[1] # Records(prev_file)[2]

\* C3: the loop goes on as long as every entry taken is at or after now - 25h
\* and ends at the first entry before it: that entry is the last one taken,
\* and every entry appended stands before it.
C3_TimeCutoff ==
    pc \in {"fetch", "fetched"} =>
        /\ pc = "fetch" => pos < CutPos
        /\ pc = "fetched" =>
              pos = (IF CutPos <= Len(upstream) THEN CutPos ELSE Len(upstream))
        /\ Len(new_papers) = Len(emitted)
        /\ \A k \in 1..Len(emitted) :
              /\ emitted[k] < CutPos
              /\ new_papers[k] = upstream[emitted[k]]

\* an entry exactly at the threshold was appended, the next one is too old,
\* and the one after that is recent, unknown and in a target category
C3_Witness ==
    /\ pc = "fetched"
    /\ Len(upstream) = 3
    /\ upstream[1].updated = Cutoff
    /\ emitted = <<1>>
    /\ OldAt(2)
    /\ pos = 2
    /\ upstream[3].updated > Cutoff
    /\ Fresh(upstream[3])

\* C4: no entry without a target category is appended by the filter or
\* becomes a record, and every new record, in the list and in the file, has
\* a tag.
C4_TargetOnly ==
    /\ \A k \in 1..Len(emitted) : HasTargetCat(upstream[emitted[k]])
    /\ \A k \in 1..Len(new_papers) : HasTargetCat(new_papers[k])
    /\ \A k \in 1..Len(raw_papers) : HasTargetCat(raw_papers[k])
    /\ \A k \in 1..Len(processed_list) : processed_list[k].tags # << >>
    /\ pc = "done" =>
          /\ Len(Records(file)) >= Len(processed_list)
          /\ \A k \in 1..Len(processed_list) : Records(file)[k].tags # << >>

C4_Witness ==
    /\ pc = "done"
    /\ "continue_category" \in skipped
    /\ processed_list # << >>

\* C5: after an enrichment call that ended in an error the run has not
\* aborted and the record built for that paper carries the fallback pair.
C5_Fallback ==
    last_ai \in {"raised", "not_json", "not_object", "fields_missing"} =>
        /\ abort_at # "process"
        /\ processed_list # << >>
        /\ FallbackPair(processed_list[Len(processed_list)])

\* C6: a run that found no usable file loads the empty sequence, does not
\* abort on what it loaded, and when it has written the file holds exactly
\* the new records.
C6_Bootstrap ==
    (runs >= 1 /\ Unusable(prev_file)) =>
        /\ existing_data = List(<< >>)
        /\ abort_at \notin {"load", "merge"}
        /\ pc = "done" => Records(file) = processed_list

\* C7: after a failed fetch there are no new papers, no enrichment call and
\* no record, the run does not abort before the write, and what it writes is
\* the loaded collection.
C7_FetchFailure ==
    fetch_failed =>
        /\ raw_papers = << >>
        /\ ai_calls = 0
        /\ processed_list = << >>
        /\ abort_at \notin {"process", "merge"}
        /\ pc = "done" => (Records(file) = Records(prev_file) /\ existing_data = List(Records(file)))

\* C8: the file always holds either what it held when the run started or,
\* once the run is done, the complete new content; in particular a run that
\* aborted has left the file as it was.
C8_NoPartialWrite ==
    \/ file = prev_file
    \/ pc = "done" /\ file = Present(JsonDumps(final_data))

\* C9: after one or more completed runs in a row whose upstream held nothing
\* new, the persisted collection is what it was before the first of them.
C9_QuietRuns ==
    (pc = "done" /\ quiet_n >= 1) =>
        /\ file.exists
        /\ JsonLoads(file.text).ok
        /\ JsonLoads(file.text).val = List(quiet_base)

\* the second such run in a row, which met a known id and a paper outside
\* the target categories
C9_Witness ==
    /\ pc = "done"
    /\ quiet_n = 2
    /\ Len(quiet_base) = 2
    /\ skipped = {"continue_known", "continue_category"}

\* C10: when the loop has ended, what the filter has appended is, in upstream
\* order, every entry before the cutoff that is unknown and in a target
\* category (and, while it runs, every such entry among those taken so far):
\* an entry with a known id is left out and the loop goes on after it.
C10_SkipKnown ==
    pc \in {"fetch", "fetched"} =>
        LET upto == IF pc = "fetch" THEN pos ELSE CutPos - 1
        IN  new_papers = SelectSeq(SubSeq(upstream, 1, upto), Fresh)

\* a known entry between two appended ones
C10_Witness ==
    /\ pc = "fetched"
    /\ Len(upstream) = 3
    /\ IdOfEntry(upstream[2]) \in LoadedIds
    /\ upstream[2].updated >= Cutoff
    /\ emitted = <<1, 3>>

====
